---- MODULE Spec2Model ----
(***************************************************************************)
(* Model of the WordPress plugin audit pipeline:                           *)
(*   dbutils.py                 the PluginData / PluginResults store        *)
(*   wordpress-plugin-audit.py  catalog refresh, archive fetch, audit pass  *)
(*                                                                         *)
(* Slugs are numbered 1..n.  A stored timestamp is the tuple of the fields  *)
(* of its text in the order the text holds them, separator included, so     *)
(* that the comparison of two texts is the lexicographic comparison of      *)
(* their tuples.  SQL NULL / Python None is the empty tuple.                *)
(***************************************************************************)
EXTENDS Integers, Sequences, FiniteSets, TLC

\* ------------------------------------------------------------------ bounds

MaxPages == 3
MaxPageLen == 2
MaxSelected == 11
MaxStoreSlugs == 2
MaxResults == 2
MaxAuditDirs == 2
MaxFindings == 2
MaxRuns == 2

\* ------------------------------------------------------- program constants

\* len(ongoing) == 10: the size of a batch handed to asyncio.gather
BatchSize == 10
\* relativedelta(years=2)
MaxAgeYears == 2

\* --------------------------------------------------------------- variables

VARIABLES
    tables,         \* the tables that exist in the database
    PluginData,     \* slug -> row, for the slugs stored
    PluginResults,  \* the rows of PluginResults, in insertion order
    lastUpsert,     \* slug -> the plugin object of the latest insert_plugin_into_db
    replaced,       \* the slugs whose row a later upsert has changed
    now,            \* datetime.now() of the run
    threshold,      \* --active-installs
    selected,       \* the rows select_plugins_for_download returned
    exitStatus,     \* how the run ended: "running", "ok", or the exception raised
    storePc,        \* the store operation a run is to issue next
    catPc,          \* position inside write_plugins_to_db
    total_pages,    \* data["info"]["pages"] of the first response
    page,           \* the loop variable of write_plugins_to_db
    pageLog,        \* the page numbers get_plugins was called with, in order
    respLog,        \* whether each response get_plugins returned was well-formed
    kindLog,        \* what each response held: "none", "noplugins" or "plugins"
    committed,      \* PluginData as of the latest db_conn.commit()
    sourcePages,    \* the number of pages the catalog source reports
    fs,             \* <download_dir>/plugins: directory name -> (file name -> content)
    replace_downloads, \* --replace-downloads
    dlPc,           \* position inside download_plugins_in_database
    plugins,        \* the slugs of the rows fetched for download, in order
    idx,            \* the index in plugins of the next row of the loop
    ongoing,        \* the coroutines of the current batch, by slug
    resolved,       \* how many coroutines of the batch have completed
    batchExc,       \* the first exception a coroutine of the batch let through
    opLog,          \* the download_and_extract_plugin calls completed, in order
    fsBefore,       \* fs as the latest completed call found it
    lastResponse,   \* what the archive source held for the latest completed call
    auPc,           \* position inside run_semgrep_and_store_results
    listing,        \* os.listdir(<download_dir>/plugins), in the order returned
    auIdx,          \* the index in listing of the next plugin of the loop
    auLog,          \* what semgrep did for each plugin audited, in order
    args,           \* the parsed command line of the run
    mainPc,         \* position inside main()
    calls,          \* the steps main() has run in this run, in order
    opened,         \* whether this run has opened the store
    usage,          \* whether this run has printed the usage
    network,        \* whether this run has made a network request
    atStart,        \* the store and the workspace as the run found them
    appended,       \* the rows this run's audit pass has appended
    runNo,          \* the number of the run
    input,          \* the external inputs of a repeated run
    prev            \* the store and the workspace as the previous run left them

storeVars == <<tables, PluginData, PluginResults, lastUpsert, replaced, now, threshold,
               selected>>
catVars == <<catPc, total_pages, page, pageLog, respLog, kindLog, committed, sourcePages>>
dlVars == <<replace_downloads, dlPc, plugins, idx, ongoing, resolved, batchExc, opLog,
            fsBefore, lastResponse>>
auVars == <<auPc, listing, auIdx, auLog>>
workVars == <<fs, dlVars, auVars>>
mainVars == <<args, mainPc, calls, opened, usage, network, atStart, appended, runNo,
              input, prev>>
vars == <<storeVars, catVars, workVars, exitStatus, storePc, mainVars>>

\* ------------------------------------------------------------ small helpers

NULL == <<>>

Range(s) == {s[i] : i \in DOMAIN s}

\* The sequences over S of length at most n.
SeqsUpTo(S, n) == UNION {[1..k -> S] : k \in 0..n}

\* Lexicographic order of two tuples of numbers: the order of the two texts.
RECURSIVE LexLess(_, _)
LexLess(a, b) ==
    IF b = <<>> THEN FALSE
    ELSE IF a = <<>> THEN TRUE
    ELSE IF Head(a) < Head(b) THEN TRUE
    ELSE IF Head(a) > Head(b) THEN FALSE
    ELSE LexLess(Tail(a), Tail(b))

\* ------------------------------------------------ the catalog's plugin objects

Slugs == 1..MaxSelected

\* plugin.get(key, default)
Get(plugin, key, default) == IF key \in DOMAIN plugin THEN plugin[key] ELSE default

\* A "last_updated" of the catalog, "YYYY-MM-DD hh:mmAM/PM ZONE", is
\* <<year, month, day, hour (1..12), minute, pm (0 or 1)>>; an "added" is
\* <<year, month, day>>.
Space == 32
LetterT == 84

\* datetime.strptime(text, "%Y-%m-%d %I:%M%p %Z"): the naive datetime
\* <<year, month, day, hour (0..23), minute, second>>; the zone is dropped.
strptime_last_updated(t) == <<t[1], t[2], t[3], (t[4] % 12) + 12 * t[6], t[5], 0>>

\* datetime.strftime("%Y-%m-%d %H:%M:%S"): the text, date and time separated
\* by a space.
strftime_datetime(d) == <<d[1], d[2], d[3], Space, d[4], d[5], d[6]>>

\* datetime.strptime(text, "%Y-%m-%d").strftime("%Y-%m-%d")
strftime_date(t) == <<t[1], t[2], t[3]>>

\* The data tuple insert_plugin_into_db binds: the non-key fields of the row.
PluginRow(plugin) ==
    LET last_updated == Get(plugin, "last_updated", NULL)
        added_date == Get(plugin, "added", NULL)
    IN  [version |-> Get(plugin, "version", "N/A"),
         active_installs |-> Get(plugin, "active_installs", 0),
         downloaded |-> Get(plugin, "downloaded", 0),
         last_updated |-> IF last_updated # NULL
                          THEN strftime_datetime(strptime_last_updated(last_updated))
                          ELSE last_updated,
         added_date |-> IF added_date # NULL THEN strftime_date(added_date)
                        ELSE added_date,
         download_link |-> Get(plugin, "download_link", "N/A")]

\* An upsert whose DO UPDATE SET list leaves out download_link.
UpsertKeepsLink(data, plugin) ==
    [s \in DOMAIN data \cup {plugin["slug"]} |->
        IF s # plugin["slug"] THEN data[s]
        ELSE IF s \in DOMAIN data
             THEN [PluginRow(plugin) EXCEPT !.download_link = data[s].download_link]
             ELSE PluginRow(plugin)]

\* An upsert that replaces the whole table by the new row.
UpsertOnlyLatest(data, plugin) == [s \in {plugin["slug"]} |-> PluginRow(plugin)]

\* An upsert that adds the new download count to the stored one.
UpsertSumsDownloaded(data, plugin) ==
    [s \in DOMAIN data \cup {plugin["slug"]} |->
        IF s # plugin["slug"] THEN data[s]
        ELSE IF s \in DOMAIN data
             THEN [PluginRow(plugin) EXCEPT !.downloaded = @ + data[s].downloaded]
             ELSE PluginRow(plugin)]

\* INSERT INTO PluginData ... ON CONFLICT(slug) DO UPDATE SET <every non-key
\* field> = excluded.<field>
Upsert(data, plugin) ==
    [s \in DOMAIN data \cup {plugin["slug"]} |->
        IF s = plugin["slug"] THEN PluginRow(plugin) ELSE data[s]]

\* What cursor.execute raises for a statement on `table`: sqlite3 reports a
\* missing table ("no such table") as sqlite3.OperationalError.
ExecuteError(table) == IF table \in tables THEN "none" ELSE "OperationalError"

\* except sqlite3.ProgrammingError: raise SystemExit("Table does not exist.
\* Please run with the '--create-schema' flag ..."); any other exception
\* propagates.  OperationalError is no subclass of ProgrammingError.
HandleStoreError(exc) == IF exc = "ProgrammingError" THEN "SystemExit" ELSE exc

\* adapt_datetime_iso: datetime.isoformat(), date and time separated by "T",
\* the microseconds appended when they are not zero.
adapt_datetime_iso(val) ==
    <<val[1], val[2], val[3], LetterT, val[4], val[5], val[6]>>
        \o (IF val[7] = 0 THEN <<>> ELSE <<val[7]>>)

\* datetime.now() - relativedelta(years=2)
two_years_ago(t) == [t EXCEPT ![1] = @ - MaxAgeYears]

\* SELECT slug, download_link FROM PluginData
\*   WHERE active_installs > ? AND last_updated >= ?
\* Both sides of >= are texts; a NULL last_updated compares as unknown.
select_plugins_for_download(data, active_installs, t) ==
    {s \in DOMAIN data :
        /\ data[s].active_installs > active_installs
        /\ data[s].last_updated # NULL
        /\ ~LexLess(data[s].last_updated, adapt_datetime_iso(two_years_ago(t)))}

\* The row insert_result_into_db inserts.  The id column is declared
\* "INT AUTO_INCREMENT PRIMARY KEY": no INTEGER PRIMARY KEY, so sqlite gives
\* it no value.
ResultRow(slug, result) ==
    [id |-> NULL, slug |-> slug, file_path |-> result.path,
     check_id |-> result.check_id, start_line |-> result.start,
     end_line |-> result.end, vuln_lines |-> result.lines]

\* ------------------------------------------------------- inputs of the store

StoreSlugs == 1..MaxStoreSlugs

Drop(f, keys) == [k \in DOMAIN f \ keys |-> f[k]]

Nows == {<<2026, 11, 6, 8, 0, 0, 0>>, <<2026, 11, 6, 8, 0, 0, 5>>}

Thresholds == {0, 10}

\* 2024-11-05 11:30PM, 2024-11-06 07:00AM, 2024-11-06 12:30PM, 2025-03-01 12:05AM
LastUpdateds ==
    {<<2024, 11, 5, 11, 30, 1>>, <<2024, 11, 6, 7, 0, 0>>,
     <<2024, 11, 6, 12, 30, 1>>, <<2025, 3, 1, 12, 5, 0>>}

FullPlugins(slugs) ==
    [slug : slugs, version : {"1.0"}, active_installs : {10, 50},
     downloaded : {100}, last_updated : LastUpdateds, added : {<<2020, 1, 2>>},
     download_link : {"zip"}]

OptionalKeys ==
    {{}, {"last_updated"},
     {"version", "active_installs", "downloaded", "added", "download_link"}}

\* The plugin objects a catalog page may hold: every field present, or some
\* optional fields missing.
Plugins(slugs) == {Drop(p, K) : p \in FullPlugins(slugs), K \in OptionalKeys}

\* The results a semgrep document may hold.
Results ==
    {[path |-> "a.php", check_id |-> "php.eval", start |-> 3, end |-> 4,
      lines |-> "eval($x)"]}

\* No archive has been fetched by the latest call: the value of lastResponse
\* before any call, and after a call that made no request.
NoResponse == [transport |-> "none", archive |-> <<>>]

\* A run that has not reached the audit pass.
AuditIdle ==
    /\ auPc = "idle"
    /\ listing = <<>>
    /\ auIdx = 0
    /\ auLog = <<>>

\* The workspace of a run that has not reached the archive fetch.
WorkIdle ==
    /\ fs = <<>>
    /\ replace_downloads = FALSE
    /\ dlPc = "idle"
    /\ plugins = <<>>
    /\ idx = 0
    /\ ongoing = <<>>
    /\ resolved = 0
    /\ batchExc = "none"
    /\ opLog = <<>>
    /\ fsBefore = <<>>
    /\ lastResponse = NoResponse
    /\ AuditIdle

\* The command line before parse_args: every flag at its default.
NoArgs ==
    [store_plugins |-> FALSE, download |-> FALSE, audit |-> FALSE,
     create_schema |-> FALSE, clear_results |-> FALSE, replace_downloads |-> FALSE]

\* main() has not been entered.
MainIdle ==
    /\ args = NoArgs
    /\ mainPc = "idle"
    /\ calls = <<>>
    /\ opened = FALSE
    /\ usage = FALSE
    /\ network = FALSE
    /\ atStart = <<>>
    /\ appended = <<>>
    /\ runNo = 0
    /\ input = <<>>
    /\ prev = <<>>

\* ------------------------------------------------- a run's store operations
\* main() issues its store operations in this order: connect_to_db, then
\* delete_results_table, then the upserts of the catalog refresh, then the
\* selection for download, then the appends of the audit pass; every step
\* but the first is optional.

\* The phase that follows when the stage at `ph` is not run, or has ended.
NextPhase(ph) ==
    CASE ph = "clear" -> "store"
      [] ph = "store" -> "select"
      [] ph = "select" -> "audit"
      [] ph = "fetched" -> "audit"

\* connect_to_db(create_schema): CREATE TABLE IF NOT EXISTS for both tables
ConnectToDb ==
    /\ storePc = "connect"
    /\ \E create_schema \in BOOLEAN :
          tables' = IF create_schema
                    THEN tables \cup {"PluginData", "PluginResults"}
                    ELSE tables
    /\ storePc' = "clear"
    /\ UNCHANGED mainVars
    /\ UNCHANGED <<PluginData, PluginResults, lastUpsert, replaced, now, threshold,
                   selected, catVars, workVars, exitStatus>>

\* A delete_results_table that drops the table and does not create it again.
drop_results_table(t, rows) == [tables |-> t \ {"PluginResults"}, rows |-> <<>>]

\* delete_results_table(cursor) on the tables t and the rows of
\* PluginResults: DROP TABLE IF EXISTS PluginResults, then
\* create_plugin_results_table(cursor)
delete_results_table(t, rows) == [tables |-> t \cup {"PluginResults"}, rows |-> <<>>]

\* if args.clear_results: delete_results_table(cursor)
DeleteResultsTable ==
    /\ storePc = "clear"
    /\ tables' = delete_results_table(tables, PluginResults).tables
    /\ PluginResults' = delete_results_table(tables, PluginResults).rows
    /\ storePc' = "store"
    /\ UNCHANGED mainVars
    /\ UNCHANGED <<PluginData, lastUpsert, replaced, now, threshold, selected,
                   catVars, workVars, exitStatus>>

\* A stage main() does not run (if args.<stage> is false), or the end of the
\* stage that is running.
SkipStage ==
    /\ storePc \in {"clear", "store", "select", "fetched"}
    /\ storePc' = NextPhase(storePc)
    /\ UNCHANGED mainVars
    /\ UNCHANGED <<storeVars, catVars, workVars, exitStatus>>

\* One successful insert_plugin_into_db on the store st = [data, last, repl]:
\* the upsert, and the record of it.
Inserted(st, plugin) ==
    LET slug == plugin["slug"] IN
    [data |-> Upsert(st.data, plugin),
     last |-> [s \in DOMAIN st.last \cup {slug} |->
                  IF s = slug THEN plugin ELSE st.last[s]],
     repl |-> IF slug \in DOMAIN st.data /\ st.data[slug] # PluginRow(plugin)
              THEN st.repl \cup {slug}
              ELSE st.repl]

\* for plugin in data["plugins"]: insert_plugin_into_db(cursor, plugin)
RECURSIVE InsertedAll(_, _)
InsertedAll(st, list) ==
    IF list = <<>> THEN st
    ELSE InsertedAll(Inserted(st, Head(list)), Tail(list))

StoreState == [data |-> PluginData, last |-> lastUpsert, repl |-> replaced]

\* insert_plugin_into_db(cursor, plugin)
InsertPlugin ==
    /\ storePc = "store"
    /\ \E plugin \in Plugins(StoreSlugs) :
          LET exc == HandleStoreError(ExecuteError("PluginData"))
              st == Inserted(StoreState, plugin)
          IN  IF exc = "none"
              THEN /\ PluginData' = st.data
                   /\ lastUpsert' = st.last
                   /\ replaced' = st.repl
                   /\ UNCHANGED <<storePc, exitStatus>>
              ELSE /\ exitStatus' = exc
                   /\ storePc' = "closed"
                   /\ UNCHANGED <<PluginData, lastUpsert, replaced>>
    /\ UNCHANGED mainVars
    /\ UNCHANGED <<tables, PluginResults, now, threshold, selected, catVars, workVars>>

\* select_plugins_for_download(cursor, active_installs).fetchall()
SelectPlugins ==
    /\ storePc = "select"
    /\ LET exc == HandleStoreError(ExecuteError("PluginData")) IN
       IF exc = "none"
       THEN /\ selected' = select_plugins_for_download(PluginData, threshold, now)
            /\ storePc' = "fetched"
            /\ UNCHANGED exitStatus
       ELSE /\ exitStatus' = exc
            /\ storePc' = "closed"
            /\ UNCHANGED selected
    /\ UNCHANGED mainVars
    /\ UNCHANGED <<tables, PluginData, PluginResults, lastUpsert, replaced, now,
                   threshold, catVars, workVars>>

\* insert_result_into_db(cursor, slug, result)
InsertResult ==
    /\ storePc = "audit"
    /\ Len(PluginResults) < MaxResults
    /\ \E slug \in StoreSlugs, result \in Results :
          LET exc == HandleStoreError(ExecuteError("PluginResults")) IN
          IF exc = "none"
          THEN /\ PluginResults' = Append(PluginResults, ResultRow(slug, result))
               /\ UNCHANGED <<storePc, exitStatus>>
          ELSE /\ exitStatus' = exc
               /\ storePc' = "closed"
               /\ UNCHANGED PluginResults
    /\ UNCHANGED mainVars
    /\ UNCHANGED <<tables, PluginData, lastUpsert, replaced, now, threshold, selected,
                   catVars, workVars>>

\* cursor.close(); db_conn.close()
CloseDb ==
    /\ storePc = "audit"
    /\ storePc' = "closed"
    /\ exitStatus' = "ok"
    /\ UNCHANGED mainVars
    /\ UNCHANGED <<storeVars, catVars, workVars>>

StoreInit ==
    /\ tables \in {{}, {"PluginData", "PluginResults"}}
    /\ PluginData = <<>>
    /\ PluginResults = <<>>
    /\ lastUpsert = <<>>
    /\ replaced = {}
    /\ now \in Nows
    /\ threshold \in Thresholds
    /\ selected = {}
    /\ exitStatus = "running"
    /\ storePc = "connect"
    /\ catPc = "idle"
    /\ total_pages = 0
    /\ page = 0
    /\ pageLog = <<>>
    /\ respLog = <<>>
    /\ kindLog = <<>>
    /\ committed = <<>>
    /\ sourcePages = 0
    /\ WorkIdle
    /\ MainIdle

StoreNext ==
    \/ ConnectToDb
    \/ DeleteResultsTable
    \/ SkipStage
    \/ InsertPlugin
    \/ SelectPlugins
    \/ InsertResult
    \/ CloseDb

SpecStore == StoreInit /\ [][StoreNext]_vars

\* The upserts of one catalog refresh alone: connect_to_db has returned and
\* any sequence of insert_plugin_into_db calls follows.
UpsertInit ==
    /\ tables \in {{}, {"PluginData", "PluginResults"}}
    /\ PluginData = <<>>
    /\ PluginResults = <<>>
    /\ lastUpsert = <<>>
    /\ replaced = {}
    /\ now \in {<<2026, 11, 6, 8, 0, 0, 0>>}
    /\ threshold = 0
    /\ selected = {}
    /\ exitStatus = "running"
    /\ storePc = "store"
    /\ catPc = "idle"
    /\ total_pages = 0
    /\ page = 0
    /\ pageLog = <<>>
    /\ respLog = <<>>
    /\ kindLog = <<>>
    /\ committed = <<>>
    /\ sourcePages = 0
    /\ WorkIdle
    /\ MainIdle

SpecUpsert == UpsertInit /\ [][InsertPlugin]_vars

\* ------------------------------------------------------ claims on the store

\* The hour of the day of a 12-hour clock reading, by cases.
Hour24(h, pm) ==
    CASE h = 12 /\ pm = 0 -> 0
      [] h = 12 /\ pm = 1 -> 12
      [] h # 12 /\ pm = 0 -> h
      [] h # 12 /\ pm = 1 -> h + 12

\* The row a plugin object stands for, field by field.
RowOf(p) ==
    [version |-> IF "version" \in DOMAIN p THEN p.version ELSE "N/A",
     active_installs |-> IF "active_installs" \in DOMAIN p THEN p.active_installs ELSE 0,
     downloaded |-> IF "downloaded" \in DOMAIN p THEN p.downloaded ELSE 0,
     last_updated |->
        IF "last_updated" \in DOMAIN p
        THEN LET t == p.last_updated
             IN  <<t[1], t[2], t[3], Space, Hour24(t[4], t[6]), t[5], 0>>
        ELSE NULL,
     added_date |-> IF "added" \in DOMAIN p THEN p.added ELSE NULL,
     download_link |-> IF "download_link" \in DOMAIN p THEN p.download_link ELSE "N/A"]

\* C7: after any sequence of insert_plugin_into_db calls the store holds one
\* row for each slug ever upserted and no other; every non-key field of the
\* row is the value derived from the latest upsert of that slug; and
\* upserting a record a second time changes nothing.
C7_UpsertLastWriteWins ==
    /\ DOMAIN PluginData = DOMAIN lastUpsert
    /\ \A s \in DOMAIN PluginData : PluginData[s] = RowOf(lastUpsert[s])
    /\ \A p \in Plugins(StoreSlugs) :
          Upsert(Upsert(PluginData, p), p) = Upsert(PluginData, p)

\* C7's case: a stored row was overwritten by a later upsert of its slug that
\* omits the download link, beside a row of another slug.
C7_Witness ==
    \E s \in replaced, t \in DOMAIN PluginData :
        /\ s # t
        /\ "download_link" \notin DOMAIN lastUpsert[s]
        /\ PluginData[s].download_link = "N/A"

\* The instant a stored "YYYY-MM-DD HH:MM:SS" text denotes, microseconds last.
InstantOf(text) == <<text[1], text[2], text[3], text[5], text[6], text[7], 0>>

\* Not older than MaxAgeYears years before t.
WithinMaxAge(text, t) == ~LexLess(InstantOf(text), two_years_ago(t))

\* C8: select_plugins_for_download returns exactly the stored records with
\* active_installs > threshold and a non-null last_updated not older than
\* two years before the current time.
C8_SelectionCorrect ==
    storePc = "fetched" =>
        selected = {s \in DOMAIN PluginData :
                       /\ PluginData[s].active_installs > threshold
                       /\ PluginData[s].last_updated # NULL
                       /\ WithinMaxAge(PluginData[s].last_updated, now)}

\* C9: a store operation issued while its table does not exist ends the run
\* with the dedicated SystemExit ("run with --create-schema"), and with no
\* other error.  (In SpecStore a missing table is the only error there is.)
C9_SchemaMissingIsSystemExit == exitStatus \in {"running", "ok", "SystemExit"}

\* C20: every row of PluginResults has an id that is not NULL, and no two
\* rows have the same id.
C20_FindingIdentity ==
    \A i \in DOMAIN PluginResults :
        /\ PluginResults[i].id # NULL
        /\ \A j \in DOMAIN PluginResults :
              PluginResults[i].id = PluginResults[j].id => i = j

\* ---------------------------------------------------------- catalog refresh

\* The plugin objects of the catalog source.
CatalogPlugins ==
    {Drop(p, K) : p \in {q \in FullPlugins(StoreSlugs) :
                            /\ q.active_installs = 50
                            /\ q.last_updated = <<2025, 3, 1, 12, 5, 0>>},
                  K \in OptionalKeys \ {{"last_updated"}}}

\* What get_plugins may return: None (a status other than 200; an empty
\* document counts the same to `not data`), or the document, which may lack
\* "info" or "plugins".
Responses ==
    LET info == [pages |-> sourcePages]
        lists == SeqsUpTo(CatalogPlugins, MaxPageLen)
    IN  {<<>>, [info |-> info]}
            \cup {[plugins |-> l] : l \in lists}
            \cup {[info |-> info, plugins |-> l] : l \in lists}

WellFormed(data) == data # <<>> /\ "info" \in DOMAIN data /\ "plugins" \in DOMAIN data

\* What a response holds: nothing (None or an empty document, both false to
\* `not data`), a document without "plugins", or one with a plugin list.
KindOf(data) ==
    IF data = <<>> THEN "none"
    ELSE IF "plugins" \notin DOMAIN data THEN "noplugins"
    ELSE "plugins"

\* data = get_plugins(page=1); if not data or "info" not in data: return;
\* total_pages = data["info"]["pages"]
CatalogFirstPage ==
    /\ catPc = "first"
    /\ \E data \in Responses :
          /\ pageLog' = Append(pageLog, 1)
          /\ respLog' = Append(respLog, WellFormed(data))
          /\ kindLog' = Append(kindLog, KindOf(data))
          /\ IF data = <<>> \/ "info" \notin DOMAIN data
             THEN catPc' = "done" /\ UNCHANGED <<total_pages, page>>
             ELSE /\ total_pages' = data.info.pages
                  /\ page' = 1
                  /\ catPc' = "loop"
    /\ UNCHANGED mainVars
    /\ UNCHANGED <<storeVars, committed, sourcePages, workVars, exitStatus, storePc>>

\* One iteration of `for page in range(1, total_pages + 1)`:
\* data = get_plugins(page=page); break if not data or "plugins" not in
\* data; else upsert every plugin of the page, then db_conn.commit().
CatalogPage ==
    /\ catPc = "loop"
    /\ page <= total_pages
    /\ \E data \in Responses :
          /\ pageLog' = Append(pageLog, page)
          /\ respLog' = Append(respLog, WellFormed(data))
          /\ kindLog' = Append(kindLog, KindOf(data))
          /\ IF data = <<>> \/ "plugins" \notin DOMAIN data
             THEN /\ catPc' = "done"
                  /\ UNCHANGED <<page, PluginData, lastUpsert, replaced, committed,
                                 exitStatus>>
             ELSE LET exc == HandleStoreError(ExecuteError("PluginData"))
                      st == InsertedAll(StoreState, data.plugins)
                  IN  IF data.plugins = <<>> \/ exc = "none"
                      THEN /\ PluginData' = st.data
                           /\ lastUpsert' = st.last
                           /\ replaced' = st.repl
                           /\ committed' = st.data
                           /\ page' = page + 1
                           /\ UNCHANGED <<catPc, exitStatus>>
                      ELSE /\ exitStatus' = exc
                           /\ catPc' = "raised"
                           /\ UNCHANGED <<page, PluginData, lastUpsert, replaced,
                                          committed>>
    /\ UNCHANGED mainVars
    /\ UNCHANGED <<tables, PluginResults, now, threshold, selected, total_pages,
                   sourcePages, workVars, storePc>>

\* The loop of write_plugins_to_db is exhausted.
CatalogEnd ==
    /\ catPc = "loop"
    /\ page > total_pages
    /\ catPc' = "done"
    /\ UNCHANGED mainVars
    /\ UNCHANGED <<storeVars, total_pages, page, pageLog, respLog, kindLog, committed,
                   sourcePages, workVars, exitStatus, storePc>>

CatalogInit ==
    /\ tables \in {{}, {"PluginData", "PluginResults"}}
    /\ PluginData = <<>>
    /\ PluginResults = <<>>
    /\ lastUpsert = <<>>
    /\ replaced = {}
    /\ now \in {<<2026, 11, 6, 8, 0, 0, 0>>}
    /\ threshold = 0
    /\ selected = {}
    /\ exitStatus = "running"
    /\ storePc = "store"
    /\ catPc = "first"
    /\ total_pages = 0
    /\ page = 0
    /\ pageLog = <<>>
    /\ respLog = <<>>
    /\ kindLog = <<>>
    /\ committed = <<>>
    /\ sourcePages \in 1..MaxPages
    /\ WorkIdle
    /\ MainIdle

CatalogNext ==
    \/ CatalogFirstPage
    \/ CatalogPage
    \/ CatalogEnd

SpecCatalog == CatalogInit /\ [][CatalogNext]_vars

\* C1: against a source that reports N pages and answers every request with
\* a well-formed page, one refresh requests exactly the pages 1, 2, ..., N,
\* each once, in increasing order.
C1_PagesRequestedOnceInOrder ==
    (catPc = "done" /\ \A i \in DOMAIN respLog : respLog[i]) =>
        pageLog = [i \in 1..sourcePages |-> i]

\* The requests made after request i.
Later(i) == {j \in DOMAIN pageLog : j > i}

\* C11: once a response for page k was a failure, empty, or without a plugin
\* list, no page greater than k is requested; the refresh does not end by an
\* exception (the schema being there); and when it has returned every record
\* upserted is stored and committed.
C11_EarlyStop ==
    /\ \A i \in DOMAIN kindLog :
          kindLog[i] # "plugins" =>
              /\ \A j \in Later(i) : pageLog[j] <= pageLog[i]
              /\ "PluginData" \in tables => catPc # "raised"
    /\ catPc = "done" =>
          /\ committed = PluginData
          /\ DOMAIN PluginData = DOMAIN lastUpsert

\* ------------------------------------------------------------ the workspace

\* os.path.exists(plugin_path)
DirExists(f, dir) == dir \in DOMAIN f

\* shutil.rmtree that forgets the directory.
rmtree_noop(f, dir) == f

\* shutil.rmtree(plugin_path)
rmtree(f, dir) == [d \in DOMAIN f \ {dir} |-> f[d]]

\* The file <dir>/<name> written with `content`, its directory made if needed.
WriteFile(f, dir, name, content) ==
    LET old == IF dir \in DOMAIN f THEN f[dir] ELSE <<>> IN
    [d \in DOMAIN f \cup {dir} |->
        IF d = dir
        THEN [n \in DOMAIN old \cup {name} |-> IF n = name THEN content ELSE old[n]]
        ELSE f[d]]

\* z.extractall(<download_dir>/plugins): the members are written in order,
\* each under the directory its own path names.  A member whose data fails
\* its CRC check raises zipfile.BadZipFile, and one whose compressed stream
\* is invalid raises zlib.error, after the member's file has been opened for
\* writing; the members before it stay written.
RECURSIVE extractall(_, _)
extractall(f, members) ==
    IF members = <<>> THEN [fs |-> f, exc |-> "none"]
    ELSE LET m == Head(members) IN
         IF m.fault = "none"
         THEN extractall(WriteFile(f, m.dir, m.name, m.content), Tail(members))
         ELSE [fs |-> WriteFile(f, m.dir, m.name, "truncated"),
               exc |-> IF m.fault = "crc" THEN "BadZipFile" ELSE "zlib.error"]

\* The body of the try block: requests.get, raise_for_status, ZipFile(...),
\* extractall.
TryFetch(f, response) ==
    CASE response.transport = "ConnectionError" ->
            [fs |-> f, exc |-> "ConnectionError", steps |-> <<"get">>]
      [] response.transport = "HTTPError" ->
            [fs |-> f, exc |-> "HTTPError", steps |-> <<"get">>]
      [] response.transport = "ok" /\ ~response.archive.zip ->
            [fs |-> f, exc |-> "BadZipFile", steps |-> <<"get">>]
      [] response.transport = "ok" /\ response.archive.zip ->
            LET r == extractall(f, response.archive.members)
            IN  [fs |-> r.fs, exc |-> r.exc, steps |-> <<"get", "extract">>]

\* The exception classes: requests' ConnectionError and HTTPError are
\* RequestExceptions.
IsA(exc, class) ==
    \/ exc = class
    \/ class = "RequestException" /\ exc \in {"ConnectionError", "HTTPError"}

\* except requests.RequestException ... except zipfile.BadZipFile
Caught(exc) == IsA(exc, "RequestException") \/ IsA(exc, "BadZipFile")

\* The skip test with the flag inverted.
SkipWhenReplacing(exists, replace) == exists /\ replace

\* if os.path.exists(plugin_path): if not replace_downloads: return
SkipExisting(exists, replace) == exists /\ ~replace

\* download_and_extract_plugin(slug, download_link, download_dir,
\* replace_downloads, verbose) on the workspace f, `response` being what the
\* archive source answers.  The coroutine never awaits: it runs as one step.
download_and_extract_plugin(f, slug, replace, response) ==
    LET exists == DirExists(f, slug) IN
    IF SkipExisting(exists, replace)
    THEN [fs |-> f, steps |-> <<>>, outcome |-> "skipped", raised |-> "none",
          reported |-> FALSE]
    ELSE LET cleared == IF exists THEN rmtree(f, slug) ELSE f
             r == TryFetch(cleared, response)
         IN  [fs |-> r.fs,
              steps |-> (IF exists THEN <<"rmtree">> ELSE <<>>) \o r.steps,
              outcome |-> IF r.exc = "none" THEN "extracted" ELSE r.exc,
              raised |-> IF r.exc = "none" \/ Caught(r.exc) THEN "none" ELSE r.exc,
              reported |-> r.exc # "none" /\ Caught(r.exc)]

\* ------------------------------------------------ inputs of the archive fetch

Member(dir, name, content, fault) ==
    [dir |-> dir, name |-> name, content |-> content, fault |-> fault]

\* A directory left by an earlier download.
OldDir == ("a.php" :> "v1") @@ ("old.php" :> "v1")

\* The slugs a directory may exist for before the stage.
PresentSlugs == {1, 2}

\* The slugs whose archive source may fail or serve a bad archive.
FlakySlugs == {1, BatchSize + 1}

OtherSlug(slug) == (slug % MaxSelected) + 1

GoodArchive(slug) ==
    [zip |-> TRUE,
     members |-> <<Member(slug, "a.php", "v2", "none"),
                   Member(slug, "b.php", "v2", "none")>>]

\* The archives a source may hold for a slug: a good one; one whose second
\* member fails its CRC check; one whose second member's compressed stream
\* is invalid; content that is no zip file; one with a member under the
\* directory of another slug.
Archives(slug) ==
    {GoodArchive(slug),
     [zip |-> TRUE,
      members |-> <<Member(slug, "a.php", "v2", "none"),
                    Member(slug, "b.php", "v2", "crc")>>],
     [zip |-> TRUE,
      members |-> <<Member(slug, "a.php", "v2", "none"),
                    Member(slug, "b.php", "v2", "data")>>],
     [zip |-> FALSE, members |-> <<>>],
     [zip |-> TRUE,
      members |-> <<Member(slug, "a.php", "v2", "none"),
                    Member(OtherSlug(slug), "x.php", "v2x", "none")>>]}

\* What requests.get(download_link) may meet.
ArchiveResponses(slug) ==
    IF slug \in FlakySlugs
    THEN {[transport |-> t, archive |-> GoodArchive(slug)] :
             t \in {"ConnectionError", "HTTPError"}}
         \cup {[transport |-> "ok", archive |-> a] : a \in Archives(slug)}
    ELSE {[transport |-> "ok", archive |-> GoodArchive(slug)]}

\* ------------------------------------------------------------ archive fetch

\* A batch that is never full.
BatchNeverFull(batch) == FALSE

\* if len(ongoing) == 10
BatchFull(batch) == Len(batch) = BatchSize

\* for (slug, download_link) in plugins: ongoing.append(
\* download_and_extract_plugin(...)): the coroutine is created, not started.
DownloadAdmit ==
    /\ dlPc = "loop"
    /\ idx <= Len(plugins)
    /\ ongoing' = Append(ongoing, plugins[idx])
    /\ idx' = idx + 1
    /\ dlPc' = IF BatchFull(ongoing') THEN "gather" ELSE "loop"
    /\ UNCHANGED mainVars
    /\ UNCHANGED <<storeVars, catVars, fs, replace_downloads, plugins, resolved, batchExc,
                   opLog, fsBefore, lastResponse, auVars, exitStatus, storePc>>

\* The loop over plugins is exhausted: if len(ongoing) > 0, gather the rest.
DownloadLoopEnd ==
    /\ dlPc = "loop"
    /\ idx > Len(plugins)
    /\ dlPc' = IF Len(ongoing) > 0 THEN "final" ELSE "done"
    /\ UNCHANGED mainVars
    /\ UNCHANGED <<storeVars, catVars, fs, replace_downloads, plugins, idx, ongoing,
                   resolved, batchExc, opLog, fsBefore, lastResponse, auVars, exitStatus,
                   storePc>>

\* await asyncio.gather(*ongoing) makes a task of every coroutine of the
\* batch; the event loop runs them in the order given, each to completion,
\* before the awaiting stage is resumed.  This is one of them running.
DownloadRun ==
    /\ dlPc \in {"gather", "final"}
    /\ resolved < Len(ongoing)
    /\ LET slug == ongoing[resolved + 1] IN
       \E response \in ArchiveResponses(slug) :
          LET r == download_and_extract_plugin(fs, slug, replace_downloads, response) IN
          /\ fs' = r.fs
          /\ fsBefore' = fs
          /\ lastResponse' = IF "get" \in Range(r.steps) THEN response ELSE NoResponse
          /\ opLog' = Append(opLog, [slug |-> slug, existed |-> DirExists(fs, slug),
                                     steps |-> r.steps, outcome |-> r.outcome,
                                     reported |-> r.reported, raised |-> r.raised])
          /\ resolved' = resolved + 1
          /\ batchExc' = IF batchExc = "none" THEN r.raised ELSE batchExc
    /\ UNCHANGED mainVars
    /\ UNCHANGED <<storeVars, catVars, replace_downloads, dlPc, plugins, idx, ongoing,
                   auVars, exitStatus, storePc>>

\* gather returns to the stage: the first exception a coroutine let through
\* is raised there and ends the stage; otherwise ongoing = [] after a full
\* batch, and pbar.close() after the last one.
DownloadGathered ==
    /\ dlPc \in {"gather", "final"}
    /\ resolved = Len(ongoing)
    /\ IF batchExc # "none"
       THEN /\ dlPc' = "raised"
            /\ exitStatus' = batchExc
            /\ UNCHANGED <<ongoing, resolved>>
       ELSE /\ IF dlPc = "gather"
               THEN ongoing' = <<>> /\ resolved' = 0 /\ dlPc' = "loop"
               ELSE dlPc' = "done" /\ UNCHANGED <<ongoing, resolved>>
            /\ UNCHANGED exitStatus
    /\ UNCHANGED mainVars
    /\ UNCHANGED <<storeVars, catVars, fs, replace_downloads, plugins, idx, batchExc,
                   opLog, fsBefore, lastResponse, auVars, storePc>>

\* The stage starts with the rows fetched (line 63); directories of earlier
\* downloads may be there.
DownloadInit ==
    /\ tables = {"PluginData", "PluginResults"}
    /\ PluginData = <<>>
    /\ PluginResults = <<>>
    /\ lastUpsert = <<>>
    /\ replaced = {}
    /\ now \in {<<2026, 11, 6, 8, 0, 0, 0>>}
    /\ threshold = 0
    /\ selected = {}
    /\ exitStatus = "running"
    /\ storePc = "fetched"
    /\ catPc = "idle"
    /\ total_pages = 0
    /\ page = 0
    /\ pageLog = <<>>
    /\ respLog = <<>>
    /\ kindLog = <<>>
    /\ committed = <<>>
    /\ sourcePages = 0
    /\ \E present \in SUBSET PresentSlugs : fs = [d \in present |-> OldDir]
    /\ replace_downloads \in BOOLEAN
    /\ dlPc = "loop"
    /\ \E M \in 0..MaxSelected : plugins = [i \in 1..M |-> i]
    /\ idx = 1
    /\ ongoing = <<>>
    /\ resolved = 0
    /\ batchExc = "none"
    /\ opLog = <<>>
    /\ fsBefore = <<>>
    /\ lastResponse = NoResponse
    /\ AuditIdle
    /\ MainIdle

DownloadNext ==
    \/ DownloadAdmit
    \/ DownloadLoopEnd
    \/ DownloadRun
    \/ DownloadGathered

SpecDownload == DownloadInit /\ [][DownloadNext]_vars

\* --------------------------------------------------- claims on archive fetch

LastOp == opLog[Len(opLog)]

\* The content of directory `dir` of f: its files, or "absent".
DirOf(f, dir) == IF dir \in DOMAIN f THEN [present |-> TRUE, files |-> f[dir]]
                 ELSE [present |-> FALSE, files |-> <<>>]

\* What the complete extraction of `archive` holds: every member, whole.
CompleteExtraction(archive) ==
    LET ms == archive.members
        dirs == {ms[i].dir : i \in DOMAIN ms}
    IN  [d \in dirs |->
            [n \in {ms[i].name : i \in {j \in DOMAIN ms : ms[j].dir = d}} |->
                LET i == CHOOSE j \in DOMAIN ms : ms[j].dir = d /\ ms[j].name = n
                IN  ms[i].content]]

\* What extracting `archive` into an empty workspace leaves.
FreshExtraction(archive) ==
    IF archive.zip THEN extractall(<<>>, archive.members).fs ELSE <<>>

\* C3: once download_and_extract_plugin has completed for a slug without
\* skipping, by success or by a handled failure, the slug's directory is
\* absent or holds the complete extraction of the archive.
C3_AllOrNothing ==
    (opLog # <<>> /\ LastOp.outcome # "skipped") =>
        \/ ~DirExists(fs, LastOp.slug)
        \/ /\ lastResponse.transport = "ok"
           /\ DirOf(fs, LastOp.slug)
                 = DirOf(CompleteExtraction(lastResponse.archive), LastOp.slug)

\* The coroutines admitted and not yet completed.
Unresolved == Len(ongoing) - resolved

\* C4: the number of download_and_extract_plugin operations admitted and
\* not yet resolved never exceeds the batch size, for any number of selected
\* records.
C4_ConcurrencyCap == Unresolved <= BatchSize

\* C4's case: more records than the cap, a full batch admitted and none of
\* it resolved yet.
C4_Witness ==
    /\ Len(plugins) > BatchSize
    /\ dlPc = "gather"
    /\ Unresolved = BatchSize

OldDirectoryGone ==
    /\ LastOp.steps # <<>>
    /\ Head(LastOp.steps) = "rmtree"
    /\ \A n \in DOMAIN fsBefore[LastOp.slug] :
          ~(/\ DirExists(fs, LastOp.slug)
            /\ n \in DOMAIN fs[LastOp.slug]
            /\ fs[LastOp.slug][n] = fsBefore[LastOp.slug][n])

FetchFailures == {"ConnectionError", "HTTPError", "BadZipFile", "zlib.error"}

\* C10: a network failure or a bad archive for one slug is reported for that
\* slug, the stage does not end by an exception, and when it has ended every
\* selected slug has had its call, once, in the order selected.
C10_FetchErrorIsolation ==
    /\ dlPc # "raised"
    /\ \A i \in DOMAIN opLog :
          opLog[i].outcome \in FetchFailures => opLog[i].reported
    /\ dlPc = "done" => [i \in DOMAIN opLog |-> opLog[i].slug] = plugins
    /\ dlPc \notin {"done", "raised"} => ENABLED DownloadNext

\* The slugs whose calls have run, in the order they ran.
CallsRun == [i \in DOMAIN opLog |-> opLog[i].slug]

\* C16: for every number of selected records the stage ends, and when it has
\* ended download_and_extract_plugin has run exactly once for each selected
\* record, none skipped and none run twice; the calls run in the order
\* selected, and while a batch is being admitted every call of the batches
\* admitted before has completed.
C16_CompleteCoverage ==
    /\ Len(CallsRun) <= Len(plugins)
    /\ CallsRun = SubSeq(plugins, 1, Len(CallsRun))
    /\ \A i, j \in DOMAIN opLog : opLog[i].slug = opLog[j].slug => i = j
    /\ dlPc = "loop" => Len(opLog) = (idx - 1) - Len(ongoing)
    /\ dlPc \in {"gather", "final"} => Len(opLog) = (idx - 1) - Unresolved
    /\ dlPc \in {"done", "raised"} => CallsRun = plugins

\* C17: a call of download_and_extract_plugin for a slug creates, changes or
\* removes only the directory of that slug: every other directory of the
\* workspace is after the call what it was before it, whatever the archive
\* downloaded holds.
C17_PartitionBySlug ==
    opLog # <<>> =>
        \A d \in (DOMAIN fs \cup DOMAIN fsBefore) \ {LastOp.slug} :
            DirOf(fs, d) = DirOf(fsBefore, d)

\* ---------------------------------------------------------------- audit pass

OutputName == "semgrep_output.json"

\* A semgrep document with k results.
Document(k, text) ==
    [parsable |-> TRUE,
     results |-> [i \in 1..k |-> [path |-> "a.php", check_id |-> "php.eval",
                                  start |-> i, end |-> i, lines |-> text]]]

\* What one semgrep invocation may do: exit 0 having written a document of
\* 0..MaxFindings results; exit 0 having written text that is no JSON; exit
\* non-zero having written nothing.
SemgrepOutcomes ==
    {[exit |-> 0, written |-> TRUE, content |-> Document(k, "new")] : k \in 0..MaxFindings}
        \cup {[exit |-> 0, written |-> TRUE,
               content |-> [parsable |-> FALSE, results |-> <<>>]],
              [exit |-> 1, written |-> FALSE,
               content |-> [parsable |-> FALSE, results |-> <<>>]]}

\* for item in data["results"]: insert_result_into_db(cursor, plugin, item);
\* db_conn.commit()
RECURSIVE AppendResults(_, _, _)
AppendResults(rows, plugin, items) ==
    IF items = <<>> THEN rows
    ELSE AppendResults(Append(rows, ResultRow(plugin, Head(items))), plugin, Tail(items))

\* One iteration of the loop of run_semgrep_and_store_results for `plugin`:
\* subprocess.run(command, check=True) inside the try, whose handlers print;
\* then, outside the try, open(output_file), json.load and the inserts.
AuditOne(f, rows, plugin, outcome) ==
    LET f1 == IF outcome.written
              THEN WriteFile(f, plugin, OutputName, outcome.content)
              ELSE f
        reported == outcome.exit # 0
        base == [fs |-> f1, rows |-> rows, reported |-> reported, raised |-> "none"]
    IN  IF OutputName \notin DOMAIN f1[plugin]
        THEN [base EXCEPT !.raised = "FileNotFoundError"]
        ELSE LET data == f1[plugin][OutputName] IN
             IF ~data.parsable
             THEN [base EXCEPT !.raised = "JSONDecodeError"]
             ELSE LET exc == HandleStoreError(ExecuteError("PluginResults")) IN
                  IF data.results # <<>> /\ exc # "none"
                  THEN [base EXCEPT !.raised = exc]
                  ELSE [base EXCEPT !.rows = AppendResults(rows, plugin, data.results)]

\* for plugin in plugins: ... (one iteration)
AuditPlugin ==
    /\ auPc = "loop"
    /\ auIdx <= Len(listing)
    /\ LET plugin == listing[auIdx] IN
       \E outcome \in SemgrepOutcomes :
          LET r == AuditOne(fs, PluginResults, plugin, outcome) IN
          /\ fs' = r.fs
          /\ PluginResults' = r.rows
          /\ auLog' = Append(auLog, [plugin |-> plugin, outcome |-> outcome,
                                     reported |-> r.reported,
                                     appended |-> Len(r.rows) - Len(PluginResults)])
          /\ IF r.raised = "none"
             THEN auIdx' = auIdx + 1 /\ UNCHANGED <<auPc, exitStatus>>
             ELSE auPc' = "raised" /\ exitStatus' = r.raised /\ UNCHANGED auIdx
    /\ UNCHANGED mainVars
    /\ UNCHANGED <<tables, PluginData, lastUpsert, replaced, now, threshold, selected,
                   catVars, dlVars, listing, storePc>>

\* The loop over the listing is exhausted.
AuditEnd ==
    /\ auPc = "loop"
    /\ auIdx > Len(listing)
    /\ auPc' = "done"
    /\ UNCHANGED mainVars
    /\ UNCHANGED <<storeVars, catVars, fs, dlVars, listing, auIdx, auLog, exitStatus,
                   storePc>>

\* The orders os.listdir may return the names of S in.
Orders(S) ==
    {l \in [1..Cardinality(S) -> S] : \A i, j \in DOMAIN l : i # j => l[i] # l[j]}

\* A plugin directory as an earlier download left it, and one that an
\* earlier audit pass has left its output in.
ExtractedDir == ("a.php" :> "v2") @@ ("b.php" :> "v2")

AuditedDir == ExtractedDir @@ (OutputName :> Document(1, "old"))

\* The pass starts at os.listdir (line 112) on a workspace of downloaded
\* plugins.
AuditInit ==
    /\ tables \in {{"PluginResults"}, {"PluginData", "PluginResults"}, {}}
    /\ PluginData = <<>>
    /\ PluginResults = <<>>
    /\ lastUpsert = <<>>
    /\ replaced = {}
    /\ now \in {<<2026, 11, 6, 8, 0, 0, 0>>}
    /\ threshold = 0
    /\ selected = {}
    /\ exitStatus = "running"
    /\ storePc = "audit"
    /\ catPc = "idle"
    /\ total_pages = 0
    /\ page = 0
    /\ pageLog = <<>>
    /\ respLog = <<>>
    /\ kindLog = <<>>
    /\ committed = <<>>
    /\ sourcePages = 0
    /\ \E present \in SUBSET (1..MaxAuditDirs) :
          /\ fs \in [present -> {ExtractedDir, AuditedDir}]
          /\ listing \in Orders(present)
    /\ replace_downloads = FALSE
    /\ dlPc = "idle"
    /\ plugins = <<>>
    /\ idx = 0
    /\ ongoing = <<>>
    /\ resolved = 0
    /\ batchExc = "none"
    /\ opLog = <<>>
    /\ fsBefore = <<>>
    /\ lastResponse = NoResponse
    /\ auPc = "loop"
    /\ auIdx = 1
    /\ auLog = <<>>
    /\ MainIdle

AuditNext ==
    \/ AuditPlugin
    \/ AuditEnd

SpecAudit == AuditInit /\ [][AuditNext]_vars

\* ------------------------------------------------------ claims on the audit

\* Whether the log entry is of an analysis that succeeded: exit 0 and a
\* parsable document written.
Analysed(e) == e.outcome.exit = 0 /\ e.outcome.written /\ e.outcome.content.parsable

RECURSIVE FindingsOf(_)
FindingsOf(log) ==
    IF log = <<>> THEN 0
    ELSE (IF Analysed(Head(log)) THEN Len(Head(log).outcome.content.results) ELSE 0)
            + FindingsOf(Tail(log))

\* C2: a plugin directory whose analysis fails (non-zero exit, no output
\* file, unparsable output) is reported as one failure and the pass goes on:
\* the pass never ends by an exception, every directory listed is visited,
\* each failed analysis is reported, and the rows appended are the findings
\* of the analyses that succeeded.
C2_AuditIsolation ==
    /\ auPc # "raised"
    /\ auPc = "done" =>
          /\ Len(auLog) = Len(listing)
          /\ \A i \in DOMAIN auLog : ~Analysed(auLog[i]) => auLog[i].reported
          /\ Len(PluginResults) = FindingsOf(auLog)

\* The iteration logged at i has ended without raising.
Completed(i) == i < auIdx

\* The rows the iteration logged last has appended.
LastAppended ==
    LET n == auLog[Len(auLog)].appended
    IN  SubSeq(PluginResults, Len(PluginResults) - n + 1, Len(PluginResults))

\* C18: in an audit pass, over directories an earlier pass has audited too,
\* the rows appended for a plugin are the results the analyzer produced for
\* it in this pass: none for a plugin whose analyzer invocation failed, and
\* for one analysed, when its iteration has ended, one row per result of
\* the document written in this pass.
C18_AppendsThisPassOnly ==
    /\ \A i \in DOMAIN auLog :
          /\ ~Analysed(auLog[i]) => auLog[i].appended = 0
          /\ (Analysed(auLog[i]) /\ Completed(i)) =>
                auLog[i].appended = Len(auLog[i].outcome.content.results)
    /\ (auLog # <<>> /\ Analysed(auLog[Len(auLog)]) /\ Completed(Len(auLog))) =>
          LastAppended = AppendResults(<<>>, auLog[Len(auLog)].plugin,
                                       auLog[Len(auLog)].outcome.content.results)

\* ------------------------------------------------------------ whole stages
\* Each stage of the pipeline as one function of the state it starts on and
\* of what its external collaborator answers.

Min(a, b) == IF a < b THEN a ELSE b

\* get_plugins(page) against a catalog source that holds `source[page]` for
\* each page it has; a page it does not have is answered with a status other
\* than 200.
get_plugins(source, p) == IF p \in DOMAIN source THEN source[p] ELSE <<>>

\* for page in range(1, total_pages + 1): ... on the store st = [data, last,
\* repl], from `p` on.
RECURSIVE CatalogLoop(_, _, _, _)
CatalogLoop(st, source, p, total) ==
    IF p > total THEN [st |-> st, exc |-> "none"]
    ELSE LET data == get_plugins(source, p) IN
         IF data = <<>> \/ "plugins" \notin DOMAIN data
         THEN [st |-> st, exc |-> "none"]
         ELSE LET exc == HandleStoreError(ExecuteError("PluginData")) IN
              IF data.plugins = <<>> \/ exc = "none"
              THEN CatalogLoop(InsertedAll(st, data.plugins), source, p + 1, total)
              ELSE [st |-> st, exc |-> exc]

\* write_plugins_to_db(db_conn, cursor)
write_plugins_to_db(st, source) ==
    LET data == get_plugins(source, 1) IN
    IF data = <<>> \/ "info" \notin DOMAIN data
    THEN [st |-> st, exc |-> "none"]
    ELSE CatalogLoop(st, source, 1, data.info.pages)

\* await asyncio.gather(*batch): every coroutine of the batch runs, in the
\* order given; the first exception one lets through is raised to the stage.
RECURSIVE Gather(_, _, _, _)
Gather(f, batch, replace, source) ==
    IF batch = <<>> THEN [fs |-> f, exc |-> "none", net |-> FALSE]
    ELSE LET slug == Head(batch)
             r == download_and_extract_plugin(f, slug, replace, source[slug])
             rest == Gather(r.fs, Tail(batch), replace, source)
         IN  [fs |-> rest.fs,
              exc |-> IF r.raised # "none" THEN r.raised ELSE rest.exc,
              net |-> "get" \in Range(r.steps) \/ rest.net]

\* download_plugins_in_database from the rows fetched on: the rows are
\* gathered ten at a time, the rest at the end; an exception out of a batch
\* ends the stage.
RECURSIVE download_plugins_in_database(_, _, _, _)
download_plugins_in_database(f, rows, replace, source) ==
    IF rows = <<>> THEN [fs |-> f, exc |-> "none", net |-> FALSE]
    ELSE LET n == Min(BatchSize, Len(rows))
             g == Gather(f, SubSeq(rows, 1, n), replace, source)
         IN  IF g.exc # "none" THEN g
             ELSE LET rest == download_plugins_in_database(
                                  g.fs, SubSeq(rows, n + 1, Len(rows)), replace, source)
                  IN  [fs |-> rest.fs, exc |-> rest.exc, net |-> g.net \/ rest.net]

\* run_semgrep_and_store_results from os.listdir on: `analyzer[plugin]` is
\* what semgrep does for the directory.
RECURSIVE run_semgrep_and_store_results(_, _, _, _)
run_semgrep_and_store_results(f, rows, names, analyzer) ==
    IF names = <<>> THEN [fs |-> f, rows |-> rows, exc |-> "none"]
    ELSE LET r == AuditOne(f, rows, Head(names), analyzer[Head(names)]) IN
         IF r.raised # "none"
         THEN [fs |-> r.fs, rows |-> r.rows, exc |-> r.raised]
         ELSE run_semgrep_and_store_results(r.fs, r.rows, Tail(names), analyzer)

\* --------------------------------------------------------- inputs of main()

\* parser.parse_args(): the store_true flags.
Args ==
    [store_plugins : BOOLEAN, download : BOOLEAN, audit : BOOLEAN,
     create_schema : BOOLEAN, clear_results : BOOLEAN, replace_downloads : BOOLEAN]

\* The command lines of a run: --replace-downloads goes with --download.
RunArgs == {a \in Args : a.replace_downloads => a.download}

\* A catalog entry that select_plugins_for_download selects.
MainPlugin(slug) ==
    [slug |-> slug, version |-> "1.0", active_installs |-> 50, downloaded |-> 100,
     last_updated |-> <<2025, 3, 1, 12, 5, 0>>, added |-> <<2020, 1, 2>>,
     download_link |-> "zip"]

\* The catalog sources of a run: one that fails at once; one of two pages
\* whose second page fails; one of as many pages as slugs, a slug a page.
MainCatalogs ==
    LET pages == [i \in StoreSlugs |->
                     [info |-> [pages |-> MaxStoreSlugs], plugins |-> <<MainPlugin(i)>>]]
    IN  {<<>>, SubSeq(pages, 1, 1), pages}

\* The archive sources of a run: what each slug's download link answers.
MainArchives == {src \in [StoreSlugs -> UNION {ArchiveResponses(q) : q \in StoreSlugs}] :
                    \A q \in StoreSlugs : src[q] \in ArchiveResponses(q)}

\* The analyzers of a run: for each directory, a document of one result or a
\* failure that writes nothing.
MainAnalyzers ==
    [StoreSlugs -> {o \in SemgrepOutcomes :
                       \/ o.exit # 0
                       \/ o.content.parsable /\ Len(o.content.results) = 1}]

\* The members of S in the order of `order`.
InOrder(order, S) == SelectSeq(order, LAMBDA q : q \in S)

\* The store and the workspace.
ProgramState ==
    [tables |-> tables, PluginData |-> PluginData, PluginResults |-> PluginResults,
     fs |-> fs]

\* ------------------------------------------------------------------ main()

\* A test of the flags that counts --create-schema as a stage.
StageOrSchemaFlags(a) == a.store_plugins \/ a.download \/ a.audit \/ a.create_schema

\* args.store_plugins or args.download or args.audit
StageFlags(a) == a.store_plugins \/ a.download \/ a.audit

\* An order of the steps with the audit pass before the archive fetch.
NextStepAuditFirst(pc) ==
    CASE pc = "connect" -> "clear"
      [] pc = "clear" -> "store"
      [] pc = "store" -> "audit"
      [] pc = "audit" -> "download"
      [] pc = "download" -> "close"

\* The statement of main() that follows the one at `pc`, in program order.
NextStep(pc) ==
    CASE pc = "connect" -> "clear"
      [] pc = "clear" -> "store"
      [] pc = "store" -> "download"
      [] pc = "download" -> "audit"
      [] pc = "audit" -> "close"

\* The run ends by the exception `exc`, or goes on to `pc`.
RaiseOrGo(exc, pc) ==
    IF exc = "none"
    THEN mainPc' = pc /\ UNCHANGED exitStatus
    ELSE mainPc' = "exited" /\ exitStatus' = exc

\* args = parser.parse_args(); if not args.store_plugins and not
\* args.download and not args.audit: print(...); parser.print_help()
MainParse ==
    /\ mainPc = "parse"
    /\ \E a \in RunArgs :
          /\ args' = a
          /\ IF ~StageFlags(a)
             THEN usage' = TRUE /\ mainPc' = "exited" /\ exitStatus' = "ok"
             ELSE mainPc' = "connect" /\ UNCHANGED <<usage, exitStatus>>
    /\ UNCHANGED <<storeVars, catVars, workVars, storePc, calls, opened, network,
                   atStart, appended, runNo, input, prev>>

\* db_conn, cursor = connect_to_db(args.create_schema)
MainConnect ==
    /\ mainPc = "connect"
    /\ opened' = TRUE
    /\ tables' = IF args.create_schema
                 THEN tables \cup {"PluginData", "PluginResults"}
                 ELSE tables
    /\ calls' = calls \o <<"connect_to_db">>
                      \o (IF args.create_schema THEN <<"create_schema">> ELSE <<>>)
    /\ mainPc' = NextStep(mainPc)
    /\ UNCHANGED <<PluginData, PluginResults, lastUpsert, replaced, now, threshold,
                   selected, catVars, workVars, exitStatus, storePc, args, usage,
                   network, atStart, appended, runNo, input, prev>>

\* if args.clear_results: delete_results_table(cursor)
MainClear ==
    /\ mainPc = "clear"
    /\ IF args.clear_results
       THEN LET r == delete_results_table(tables, PluginResults) IN
            /\ tables' = r.tables
            /\ PluginResults' = r.rows
            /\ calls' = Append(calls, "delete_results_table")
       ELSE UNCHANGED <<tables, PluginResults, calls>>
    /\ mainPc' = NextStep(mainPc)
    /\ UNCHANGED <<PluginData, lastUpsert, replaced, now, threshold, selected, catVars,
                   workVars, exitStatus, storePc, args, opened, usage, network, atStart,
                   appended, runNo, input, prev>>

\* if args.store_plugins: write_plugins_to_db(db_conn, cursor, args.verbose),
\* against the catalog source `source`
MainStoreOn(source) ==
    /\ mainPc = "store"
    /\ IF args.store_plugins
       THEN LET r == write_plugins_to_db(StoreState, source) IN
            /\ PluginData' = r.st.data
            /\ lastUpsert' = r.st.last
            /\ replaced' = r.st.repl
            /\ committed' = r.st.data
            /\ network' = TRUE
            /\ calls' = Append(calls, "write_plugins_to_db")
            /\ RaiseOrGo(r.exc, NextStep(mainPc))
       ELSE /\ mainPc' = NextStep(mainPc)
            /\ UNCHANGED <<PluginData, lastUpsert, replaced, committed, network, calls,
                           exitStatus>>
    /\ UNCHANGED <<tables, PluginResults, now, threshold, selected, catPc, total_pages,
                   page, pageLog, respLog, kindLog, sourcePages, workVars, storePc,
                   args, opened, usage, atStart, appended, runNo, input, prev>>

\* if args.download: await download_plugins_in_database(cursor,
\* args.download_dir, args.active_installs, args.replace_downloads,
\* args.verbose): the selection is fetched in the order `order`, and the
\* archive source is `source`
MainDownloadOn(order, source) ==
    /\ mainPc = "download"
    /\ IF args.download
       THEN LET exc == HandleStoreError(ExecuteError("PluginData")) IN
            IF exc # "none"
            THEN /\ calls' = Append(calls, "select_plugins_for_download")
                 /\ RaiseOrGo(exc, NextStep(mainPc))
                 /\ UNCHANGED <<selected, fs, network>>
            ELSE LET rows == select_plugins_for_download(PluginData, threshold, now)
                     r == download_plugins_in_database(
                              fs, InOrder(order, rows), args.replace_downloads, source)
                 IN  /\ selected' = rows
                     /\ fs' = r.fs
                     /\ network' = (network \/ r.net)
                     /\ calls' = calls \o <<"select_plugins_for_download",
                                            "download_plugins_in_database">>
                     /\ RaiseOrGo(r.exc, NextStep(mainPc))
       ELSE /\ mainPc' = NextStep(mainPc)
            /\ UNCHANGED <<selected, fs, network, calls, exitStatus>>
    /\ UNCHANGED <<tables, PluginData, PluginResults, lastUpsert, replaced, now,
                   threshold, catVars, dlVars, auVars, storePc, args, opened, usage,
                   atStart, appended, runNo, input, prev>>

\* if args.audit: run_semgrep_and_store_results(db_conn, cursor,
\* args.download_dir, args.config, args.verbose): os.listdir returns the
\* directories in the order `order`, and semgrep does what `analyzer` says
MainAuditOn(order, analyzer) ==
    /\ mainPc = "audit"
    /\ IF args.audit
       THEN LET r == run_semgrep_and_store_results(
                         fs, PluginResults, InOrder(order, DOMAIN fs), analyzer)
            IN  /\ fs' = r.fs
                /\ PluginResults' = r.rows
                /\ appended' = SubSeq(r.rows, Len(PluginResults) + 1, Len(r.rows))
                /\ calls' = Append(calls, "run_semgrep_and_store_results")
                /\ RaiseOrGo(r.exc, NextStep(mainPc))
       ELSE /\ mainPc' = NextStep(mainPc)
            /\ UNCHANGED <<fs, PluginResults, appended, calls, exitStatus>>
    /\ UNCHANGED <<tables, PluginData, lastUpsert, replaced, now, threshold, selected,
                   catVars, dlVars, auVars, storePc, args, opened, usage, network,
                   atStart, runNo, input, prev>>

\* cursor.close(); db_conn.close(); main() returns
MainClose ==
    /\ mainPc = "close"
    /\ calls' = Append(calls, "close")
    /\ mainPc' = "exited"
    /\ exitStatus' = "ok"
    /\ UNCHANGED <<storeVars, catVars, workVars, storePc, args, opened, usage, network,
                   atStart, appended, runNo, input, prev>>

\* The orders in which sqlite returns the rows and os.listdir the names.
MainOrders == Orders(StoreSlugs)

\* The inputs of the runs of SpecMain: the rows and the names come in
\* increasing order; the archive of slug 1 is good, or cannot be fetched, or
\* has a member with an invalid stream; semgrep succeeds everywhere, or
\* fails for slug 1.
RunOrders == {[i \in StoreSlugs |-> i]}

RunArchives ==
    {src \in MainArchives :
        \/ src[1].transport = "ConnectionError"
        \/ /\ src[1].transport = "ok"
           /\ src[1].archive.zip
           /\ \A i \in DOMAIN src[1].archive.members :
                 /\ src[1].archive.members[i].dir = 1
                 /\ src[1].archive.members[i].fault \in {"none", "data"}}

RunAnalyzers == {an \in MainAnalyzers : \A q \in StoreSlugs \ {1} : an[q].exit = 0}

MainStore == \E source \in MainCatalogs : MainStoreOn(source)

MainDownload == \E order \in RunOrders, source \in RunArchives :
                    MainDownloadOn(order, source)

MainAudit == \E order \in RunOrders, analyzer \in RunAnalyzers :
                 MainAuditOn(order, analyzer)

\* The program is started again on the store and the workspace as the run
\* before left them.
MainNextRun ==
    /\ mainPc = "exited"
    /\ runNo < MaxRuns
    /\ runNo' = runNo + 1
    /\ mainPc' = "parse"
    /\ args' = NoArgs
    /\ calls' = <<>>
    /\ opened' = FALSE
    /\ usage' = FALSE
    /\ network' = FALSE
    /\ atStart' = ProgramState
    /\ appended' = <<>>
    /\ exitStatus' = "running"
    /\ selected' = {}
    /\ UNCHANGED <<tables, PluginData, PluginResults, lastUpsert, replaced, now,
                   threshold, catVars, workVars, storePc, input, prev>>

\* The first run starts on a store and a workspace that earlier use may
\* have left: no table, or both tables and no row; no directory.
MainInit ==
    /\ tables \in {{}, {"PluginData", "PluginResults"}}
    /\ PluginData = <<>>
    /\ PluginResults = <<>>
    /\ lastUpsert = <<>>
    /\ replaced = {}
    /\ now \in {<<2026, 11, 6, 8, 0, 0, 0>>}
    /\ threshold = 0
    /\ selected = {}
    /\ exitStatus = "running"
    /\ storePc = "idle"
    /\ catPc = "idle"
    /\ total_pages = 0
    /\ page = 0
    /\ pageLog = <<>>
    /\ respLog = <<>>
    /\ kindLog = <<>>
    /\ committed = <<>>
    /\ sourcePages = 0
    /\ WorkIdle
    /\ args = NoArgs
    /\ mainPc = "parse"
    /\ calls = <<>>
    /\ opened = FALSE
    /\ usage = FALSE
    /\ network = FALSE
    /\ atStart = ProgramState
    /\ appended = <<>>
    /\ runNo = 1
    /\ input = <<>>
    /\ prev = <<>>

MainNext ==
    \/ MainParse
    \/ MainConnect
    \/ MainClear
    \/ MainStore
    \/ MainDownload
    \/ MainAudit
    \/ MainClose
    \/ MainNextRun

SpecMain == MainInit /\ [][MainNext]_vars

\* ------------------------------------------------- one stage, run twice
\* The program is run with one stage flag, and then once more with the same
\* command line against the same catalog pages, archives, analyzer output
\* and enumeration order.

\* The store after a refresh from a catalog that holds every slug.
Stored ==
    InsertedAll([data |-> <<>>, last |-> <<>>, repl |-> {}],
                [i \in StoreSlugs |-> MainPlugin(i)])

OneStage(a) ==
    Cardinality({k \in {"store_plugins", "download", "audit"} : a[k]}) = 1

TwiceArgs ==
    {a \in Args : /\ OneStage(a)
                  /\ ~a.clear_results
                  /\ a.replace_downloads => a.download}

\* The external inputs of the stage that `a` selects.
TwiceInputs(a) ==
    [catalog : IF a.store_plugins THEN MainCatalogs ELSE {<<>>},
     archives : IF a.download THEN MainArchives ELSE {<<>>},
     analyzer : IF a.audit THEN MainAnalyzers ELSE {<<>>},
     order : IF a.store_plugins THEN {<<>>} ELSE MainOrders]

TwiceStore == MainStoreOn(input.catalog)

TwiceDownload == MainDownloadOn(input.order, input.archives)

TwiceAudit == MainAuditOn(input.order, input.analyzer)

\* The second run: the same command line, the same inputs.
TwiceRepeat ==
    /\ mainPc = "exited"
    /\ runNo = 1
    /\ runNo' = runNo + 1
    /\ prev' = [state |-> ProgramState, first |-> Len(atStart.PluginResults),
                exit |-> exitStatus]
    /\ mainPc' = "connect"
    /\ calls' = <<>>
    /\ opened' = FALSE
    /\ network' = FALSE
    /\ atStart' = ProgramState
    /\ appended' = <<>>
    /\ exitStatus' = "running"
    /\ UNCHANGED <<storeVars, catVars, workVars, storePc, args, usage, input>>

\* The first run starts after parse_args, on a store that is empty or holds
\* the catalog, and on a workspace of directories that earlier downloads and
\* audit passes left.
TwiceInit ==
    /\ \E st \in {[tables |-> {}, data |-> <<>>, last |-> <<>>],
                  [tables |-> {"PluginData", "PluginResults"}, data |-> Stored.data,
                   last |-> Stored.last]} :
          /\ tables = st.tables
          /\ PluginData = st.data
          /\ lastUpsert = st.last
          /\ committed = st.data
    /\ PluginResults = <<>>
    /\ replaced = {}
    /\ now \in {<<2026, 11, 6, 8, 0, 0, 0>>}
    /\ threshold = 0
    /\ selected = {}
    /\ exitStatus = "running"
    /\ storePc = "idle"
    /\ catPc = "idle"
    /\ total_pages = 0
    /\ page = 0
    /\ pageLog = <<>>
    /\ respLog = <<>>
    /\ kindLog = <<>>
    /\ sourcePages = 0
    /\ \E present \in SUBSET StoreSlugs : fs \in [present -> {OldDir, AuditedDir}]
    /\ replace_downloads = FALSE
    /\ dlPc = "idle"
    /\ plugins = <<>>
    /\ idx = 0
    /\ ongoing = <<>>
    /\ resolved = 0
    /\ batchExc = "none"
    /\ opLog = <<>>
    /\ fsBefore = <<>>
    /\ lastResponse = NoResponse
    /\ AuditIdle
    /\ args \in TwiceArgs
    /\ input \in TwiceInputs(args)
    /\ mainPc = "connect"
    /\ calls = <<>>
    /\ opened = FALSE
    /\ usage = FALSE
    /\ network = FALSE
    /\ atStart = ProgramState
    /\ appended = <<>>
    /\ runNo = 1
    /\ prev = <<>>

TwiceNext ==
    \/ MainConnect
    \/ MainClear
    \/ TwiceStore
    \/ TwiceDownload
    \/ TwiceAudit
    \/ MainClose
    \/ TwiceRepeat

SpecTwice == TwiceInit /\ [][TwiceNext]_vars

\* ------------------------------------------------ claims on repeated stages

\* The second run has ended.
TwiceDone == mainPc = "exited" /\ runNo = 2

\* The rows the first run appended.
FirstAppended ==
    SubSeq(prev.state.PluginResults, prev.first + 1, Len(prev.state.PluginResults))

NoStageFlag == ~args.store_plugins /\ ~args.download /\ ~args.audit

\* C13: a run without --store-plugins, --download and --audit, whatever its
\* other flags, prints the usage and ends without an error, having opened no
\* store, made no call and no network request, and left the tables, both
\* stores and the workspace as it found them.
C13_UsageOnly ==
    (mainPc \notin {"idle", "parse"} /\ NoStageFlag) =>
        /\ usage
        /\ mainPc = "exited"
        /\ exitStatus = "ok"
        /\ ~opened
        /\ ~network
        /\ calls = <<>>
        /\ ProgramState = atStart

\* C13's case: a run with --create-schema and --clear-results and no stage
\* flag, on a store that holds plugins and findings and a workspace that
\* holds a directory.
C13_Witness ==
    /\ mainPc = "exited"
    /\ NoStageFlag
    /\ args.create_schema
    /\ args.clear_results
    /\ atStart.PluginResults # <<>>
    /\ atStart.PluginData # <<>>
    /\ atStart.fs # <<>>

\* delete_results_table has run in this run.
Cleared == "delete_results_table" \in Range(calls)

\* C14: once delete_results_table has run, whatever PluginResults held, the
\* table exists and holds exactly the rows appended since (none, until the
\* audit pass appends), the appends of the audit pass do not fail for a
\* missing table, and delete_results_table left PluginData as it was.
C14_FindingsClear ==
    Cleared =>
        /\ "PluginResults" \in tables
        /\ PluginResults = appended
        /\ mainPc = "store" => PluginData = atStart.PluginData
        /\ "run_semgrep_and_store_results" \in Range(calls) =>
              exitStatus \notin {"OperationalError", "SystemExit"}

\* C14's case: findings and plugins were stored, the findings were cleared,
\* and the audit pass appended findings that the store now holds.
C14_Witness ==
    /\ Cleared
    /\ atStart.PluginResults # <<>>
    /\ atStart.PluginData # <<>>
    /\ appended # <<>>
    /\ PluginResults = appended

\* The steps a run with the flags `a` makes when none raises, in the order
\* schema creation, findings-clear, catalog refresh, selection, archive
\* fetch, audit pass.
Expected(a) ==
    <<"connect_to_db">>
        \o (IF a.create_schema THEN <<"create_schema">> ELSE <<>>)
        \o (IF a.clear_results THEN <<"delete_results_table">> ELSE <<>>)
        \o (IF a.store_plugins THEN <<"write_plugins_to_db">> ELSE <<>>)
        \o (IF a.download
            THEN <<"select_plugins_for_download", "download_plugins_in_database">>
            ELSE <<>>)
        \o (IF a.audit THEN <<"run_semgrep_and_store_results">> ELSE <<>>)
        \o <<"close">>

IsPrefix(a, b) == Len(a) <= Len(b) /\ a = SubSeq(b, 1, Len(a))

\* C15: in a run with a stage flag the steps made are, in order, the enabled
\* ones of schema creation, findings-clear, catalog refresh, selection,
\* archive fetch, audit pass: all of them when the run ends normally, the
\* first of them when a step raises; and a step whose flag is not set
\* changes nothing.
C15_StageOrder ==
    ~NoStageFlag =>
        /\ IsPrefix(calls, Expected(args))
        /\ exitStatus = "ok" => calls = Expected(args)
        /\ (~args.create_schema /\ ~args.clear_results) => tables = atStart.tables
        /\ (~args.clear_results /\ ~args.audit) => PluginResults = atStart.PluginResults
        /\ ~args.store_plugins => PluginData = atStart.PluginData
        /\ (~args.download /\ ~args.audit) => fs = atStart.fs

\* C15's case: a run with every flag set has ended normally, having stored
\* plugins, selected and fetched them, and appended findings.
C15_Witness ==
    /\ exitStatus = "ok"
    /\ args.create_schema /\ args.clear_results
    /\ args.store_plugins /\ args.download /\ args.audit
    /\ calls = Expected(args)
    /\ PluginData # <<>>
    /\ selected # {}
    /\ fs # <<>>
    /\ appended # <<>>

\* C19: no step of any run removes a slug from PluginData.
C19_SlugsNeverShrink == [][DOMAIN PluginData \subseteq DOMAIN PluginData']_vars

\* C19's case: a later run with --create-schema and --clear-results has
\* refreshed the catalog over a store that held every slug.
C19_Witness ==
    /\ runNo > 1
    /\ mainPc = "exited"
    /\ "write_plugins_to_db" \in Range(calls)
    /\ args.create_schema /\ args.clear_results
    /\ DOMAIN atStart.PluginData = StoreSlugs
    /\ DOMAIN PluginData = StoreSlugs

====
